---- MODULE Spec2Model ----
(***************************************************************************)
(* Model of the algorithm execution engine of the DSA visualizer:          *)
(*   - the step primitives (compare, swap, set, highlight, markSorted)     *)
(*     created by AlgorithmEngine.createCallbacks,                         *)
(*   - the nine sorting generators of algorithms/sorting.ts,               *)
(*   - AlgorithmEngine.execute / stop / pause / resume / step,             *)
(*   - CanvasCommandExecutor.executeRun and friends, the callers' entry.   *)
(*                                                                         *)
(* JavaScript arrays are 0-indexed; the model keeps the source's indices   *)
(* and stores arrays as sequences, element i at position i + 1.            *)
(* One action is one macrotask of the event loop: an external call or a    *)
(* timer that fires, followed by everything the woken code does until it   *)
(* suspends on the next timer or on the step signal.                       *)
(***************************************************************************)
EXTENDS Integers, Sequences, FiniteSets, TLC

VARIABLES
    state,          \* AlgorithmEngine.state (the object this.state points to)
    heap,           \* the array objects: heap[0] is the [] of createInitialState,
                    \* heap[r] the copy of the input made by run r's execute
    metrics,        \* PerformanceMonitor.metrics
    speed,          \* AlgorithmEngine.speed
    animationMode,  \* AlgorithmEngine.animationMode
    stepResolve,    \* AlgorithmEngine.stepResolve: the run whose compare waits, 0 = null
    visualization,  \* AlgorithmEngine.visualization: "null", or a consumer that is
                    \* "ok", or one whose calls raise ("throws")
    runs,           \* per call of execute: the generator's locals and its suspension
    results,        \* per call of execute: the ExecutionResult its promise settled with
    nextRun,        \* number of the next call of executeRun
    runError,       \* the error the last call of executeRun failed with, "" if none
    supplied,       \* history: the speed last given to executeRun or setSpeed
    actors,         \* history: the runs whose sequence had a primitive effect in the last step
    sortAlgo,       \* whole-run view: algorithm name
    sortInput,      \* whole-run view: config.inputArray
    sortResult      \* whole-run view: the ExecutionResult of the uninterrupted run

vars == <<state, heap, metrics, speed, animationMode, stepResolve, visualization,
          runs, results, nextRun, runError, supplied, actors, sortAlgo, sortInput, sortResult>>

engineVars == <<state, heap, metrics, speed, animationMode, stepResolve,
                visualization, runs, results, nextRun, runError, supplied, actors>>

sortVars == <<sortAlgo, sortInput, sortResult>>

-----------------------------------------------------------------------------
(* Bounds of the model *)

\* longest input array of the whole-run view
MaxLen == 3
\* inputs of the whole-run view hold multiples of ValStep up to MaxVal * ValStep
MaxVal == 2
\* calls of executeRun in one behaviour of Spec; RunsSpec has one more
MaxRuns == 1
\* distance between two values of the whole-run view's inputs
ValStep == 7

-----------------------------------------------------------------------------
(* JavaScript values and arrays *)

\* the value read from an index the array does not hold
Undefined == -1

\* the number Infinity, which validateArray accepts: it is greater than every
\* other value of the model
Infinity == 1000000000

\* arr[i]
JSGet(a, i) == IF i >= 0 /\ i < Len(a) THEN a[i + 1] ELSE Undefined

\* arr[i] = v; a write past the end grows the array, the holes read undefined,
\* and a write at a negative index sets a property and no element
JSPut(a, i, v) ==
    IF i < 0
    THEN a      \* a property that is no index: the elements stay as they are
    ELSE IF i < Len(a)
    THEN [a EXCEPT ![i + 1] = v]
    ELSE [k \in 1..(i + 1) |-> IF k <= Len(a) THEN a[k] ELSE IF k = i + 1 THEN v ELSE Undefined]

\* x > y; a comparison with undefined is false
JSGreater(x, y) == x # Undefined /\ y # Undefined /\ x > y

\* x < y
JSLess(x, y) == x # Undefined /\ y # Undefined /\ x < y

\* x <= y
JSLessEq(x, y) == x # Undefined /\ y # Undefined /\ x <= y

\* [arr[i], arr[j]] = [arr[j], arr[i]]
SwapInPlace(a, i, j) == JSPut(JSPut(a, i, JSGet(a, j)), j, JSGet(a, i))

Min2(x, y) == IF x < y THEN x ELSE y
Max2(x, y) == IF x > y THEN x ELSE y

-----------------------------------------------------------------------------
(* Engine state, monitor metrics and the effects of the step primitives *)

\* AlgorithmEngine.createInitialState; the array field holds the identity of
\* the array object, whose contents are in heap. timeElapsed is wall-clock
\* time and is left out.
createInitialState ==
    [isRunning |-> FALSE, isPaused |-> FALSE, isStopped |-> FALSE, array |-> 0,
     comparisons |-> 0, swaps |-> 0, accesses |-> 0, currentStep |-> 0,
     totalSteps |-> 0, algorithmName |-> "", progress |-> 0]

\* PerformanceMonitor.createInitialMetrics, without the clock and fps fields;
\* ended models endTime !== null
createInitialMetrics ==
    [comparisons |-> 0, swaps |-> 0, memoryAccesses |-> 0, ended |-> FALSE]

\* PerformanceMonitor.recordComparison
recordComparison(m) ==
    [m EXCEPT !.comparisons = @ + 1, !.memoryAccesses = @ + 2]

\* PerformanceMonitor.recordSwap
recordSwap(m) ==
    [m EXCEPT !.swaps = @ + 1, !.memoryAccesses = @ + 4]

\* PerformanceMonitor.recordAccess
recordAccess(m, count) ==
    [m EXCEPT !.memoryAccesses = @ + count]

\* An environment is what a primitive reads and writes: the engine state
\* record st, the monitor's metrics mon, and arr, the contents of the array
\* object st.array refers to.
Env(st, mon, a) == [st |-> st, mon |-> mon, arr |-> a]

\* callbacks.compare, from after waitIfPaused to the sleep
compareEffect(e, i, j) ==
    [e EXCEPT !.mon = recordComparison(@),
              !.st.comparisons = @ + 1,
              !.st.currentStep = @ + 1]

\* callbacks.compare, its return value
compareResult(e, i, j) == JSGreater(JSGet(e.arr, i), JSGet(e.arr, j))

\* callbacks.swap, from after waitIfPaused to the sleep
swapEffect(e, i, j) ==
    [e EXCEPT !.mon = recordSwap(@),
              !.st.swaps = @ + 1,
              !.st.currentStep = @ + 1,
              !.arr = SwapInPlace(@, i, j)]

\* callbacks.set, from after waitIfPaused to the sleep
setEffect(e, i, value) ==
    [e EXCEPT !.mon = recordAccess(@, 2),
              !.st.accesses = @ + 2,
              !.arr = JSPut(@, i, value)]

-----------------------------------------------------------------------------
(* The nine generators driven to natural completion without pause, stop or  *)
(* a second run: arr and this.state.array are then the same array object,   *)
(* so a generator's own write to arr lands in e.arr.                        *)

\* the generator's own [arr[i], arr[j]] = [arr[j], arr[i]] after callbacks.swap
ownSwap(e, i, j) == [e EXCEPT !.arr = SwapInPlace(@, i, j)]

\* the generator's own arr[i] = v
ownWrite(e, i, v) == [e EXCEPT !.arr = JSPut(@, i, v)]

\* await callbacks.swap(i, j) followed by the generator's own exchange
swapStep(e, i, j) == ownSwap(swapEffect(e, i, j), i, j)

RECURSIVE bubbleInner(_, _, _, _, _)
\* bubbleSort: for (let j = 0; j < n - i - 1; j++)
bubbleInner(e, n, i, j, swapped) ==
    IF j < n - i - 1
    THEN LET e1 == compareEffect(e, j, j + 1)
         IN IF compareResult(e1, j, j + 1)
            THEN bubbleInner(swapStep(e1, j, j + 1), n, i, j + 1, TRUE)
            ELSE bubbleInner(e1, n, i, j + 1, swapped)
    ELSE [e |-> e, swapped |-> swapped]

RECURSIVE bubbleOuterAllPasses(_, _, _)
\* bubbleSort's outer loop without if (!swapped) break: every pass is made
bubbleOuterAllPasses(e, n, i) ==
    IF i < n - 1
    THEN bubbleOuterAllPasses(bubbleInner(e, n, i, 0, FALSE).e, n, i + 1)
    ELSE e

RECURSIVE bubbleOuter(_, _, _)
\* bubbleSort: for (let i = 0; i < n - 1; i++), with the early termination
bubbleOuter(e, n, i) ==
    IF i < n - 1
    THEN LET r == bubbleInner(e, n, i, 0, FALSE)
         IN IF ~r.swapped THEN r.e ELSE bubbleOuter(r.e, n, i + 1)
    ELSE e

bubbleSort(e) == bubbleOuter(e, Len(e.arr), 0)

RECURSIVE selectionInner(_, _, _, _)
\* selectionSort: for (let j = i + 1; j < n; j++)
selectionInner(e, n, minIdx, j) ==
    IF j < n
    THEN LET e1 == compareEffect(e, minIdx, j)
         IN selectionInner(e1, n, IF compareResult(e1, minIdx, j) THEN j ELSE minIdx, j + 1)
    ELSE [e |-> e, minIdx |-> minIdx]

RECURSIVE selectionOuter(_, _, _)
\* selectionSort: for (let i = 0; i < n - 1; i++)
selectionOuter(e, n, i) ==
    IF i < n - 1
    THEN LET r == selectionInner(e, n, i, i + 1)
         IN selectionOuter(IF r.minIdx # i THEN swapStep(r.e, i, r.minIdx) ELSE r.e, n, i + 1)
    ELSE e

selectionSort(e) == selectionOuter(e, Len(e.arr), 0)

RECURSIVE insertionInner(_, _, _)
\* insertionSort: while (j >= 0)
insertionInner(e, i, j) ==
    IF j >= 0
    THEN LET e1 == compareEffect(e, j, i)
         IN IF ~compareResult(e1, j, i)
            THEN [e |-> e1, j |-> j]
            ELSE insertionInner(swapStep(e1, j, j + 1), i, j - 1)
    ELSE [e |-> e, j |-> j]

RECURSIVE insertionOuter(_, _, _)
\* insertionSort: for (let i = 1; i < n; i++), ending in arr[j + 1] = key
insertionOuter(e, n, i) ==
    IF i < n
    THEN LET key == JSGet(e.arr, i)
             r == insertionInner(e, i, i - 1)
         IN insertionOuter(ownWrite(r.e, r.j + 1, key), n, i + 1)
    ELSE e

insertionSort(e) == insertionOuter(e, Len(e.arr), 1)

\* arr.slice(from, to)
Slice(a, from, to) == [k \in 1..(to - from) |-> JSGet(a, from + k - 1)]

RECURSIVE mergeCopyLeft(_, _, _, _)
\* merge: while (i < left.length), the rest of the left half
mergeCopyLeft(e, left, i, k) ==
    IF i < Len(left)
    THEN mergeCopyLeft(setEffect(ownWrite(e, k, left[i + 1]), k, left[i + 1]), left, i + 1, k + 1)
    ELSE e

RECURSIVE mergeCopyRight(_, _, _, _)
\* merge: while (j < right.length), the rest of the right half
mergeCopyRight(e, right, j, k) ==
    IF j < Len(right)
    THEN mergeCopyRight(setEffect(ownWrite(e, k, right[j + 1]), k, right[j + 1]), right, j + 1, k + 1)
    ELSE e

RECURSIVE mergeLoop(_, _, _, _, _, _)
\* merge: while (i < left.length && j < right.length), then the two copy loops
mergeLoop(e, left, right, i, j, k) ==
    IF i < Len(left) /\ j < Len(right)
    THEN IF JSLessEq(left[i + 1], right[j + 1])
         THEN mergeLoop(setEffect(ownWrite(e, k, left[i + 1]), k, left[i + 1]),
                        left, right, i + 1, j, k + 1)
         ELSE mergeLoop(setEffect(ownWrite(e, k, right[j + 1]), k, right[j + 1]),
                        left, right, i, j + 1, k + 1)
    ELSE mergeCopyRight(mergeCopyLeft(e, left, i, k), right, j, k + (Len(left) - i))

\* mergeSort: merge(start, mid, end)
merge(e, start, mid, end) ==
    mergeLoop(e, Slice(e.arr, start, mid + 1), Slice(e.arr, mid + 1, end + 1), 0, 0, start)

RECURSIVE mergeSortHelper(_, _, _)
\* mergeSort: mergeSortHelper(start, end)
mergeSortHelper(e, start, end) ==
    IF start >= end
    THEN e
    ELSE LET mid == (start + end) \div 2
         IN merge(mergeSortHelper(mergeSortHelper(e, start, mid), mid + 1, end), start, mid, end)

mergeSort(e) == mergeSortHelper(e, 0, Len(e.arr) - 1)

RECURSIVE quickPartition(_, _, _, _, _)
\* quickSort: for (let j = low; j < high; j++) of the inline partition;
\* yields the environment and i
quickPartition(e, pivot, high, i, j) ==
    IF j < high
    THEN IF JSLess(JSGet(e.arr, j), pivot)
         THEN quickPartition(IF i + 1 # j THEN swapStep(e, i + 1, j) ELSE e, pivot, high, i + 1, j + 1)
         ELSE quickPartition(e, pivot, high, i, j + 1)
    ELSE [e |-> e, i |-> i]

RECURSIVE quickSortHelper(_, _, _)
\* quickSort: quickSortHelper(low, high)
quickSortHelper(e, low, high) ==
    IF low >= high
    THEN e
    ELSE LET p == quickPartition(e, JSGet(e.arr, high), high, low - 1, low)
             pivotIdx == p.i + 1
             e1 == IF pivotIdx # high THEN swapStep(p.e, pivotIdx, high) ELSE p.e
         IN quickSortHelper(quickSortHelper(e1, low, pivotIdx - 1), pivotIdx + 1, high)

quickSort(e) == quickSortHelper(e, 0, Len(e.arr) - 1)

RECURSIVE heapify(_, _, _)
\* heapSort: heapify(heapSize, rootIdx); the results of the two compare
\* calls are not used, the generator reads arr itself
heapify(e, heapSize, rootIdx) ==
    LET left == 2 * rootIdx + 1
        right == 2 * rootIdx + 2
        e1 == IF left < heapSize THEN compareEffect(e, rootIdx, left) ELSE e
        l1 == IF left < heapSize /\ JSGreater(JSGet(e1.arr, left), JSGet(e1.arr, rootIdx))
              THEN left ELSE rootIdx
        e2 == IF right < heapSize THEN compareEffect(e1, l1, right) ELSE e1
        largest == IF right < heapSize /\ JSGreater(JSGet(e2.arr, right), JSGet(e2.arr, l1))
                   THEN right ELSE l1
    IN IF largest # rootIdx
       THEN heapify(swapStep(e2, rootIdx, largest), heapSize, largest)
       ELSE e2

RECURSIVE heapBuild(_, _, _)
\* heapSort: for (let i = Math.floor(n / 2) - 1; i >= 0; i--)
heapBuild(e, n, i) ==
    IF i >= 0 THEN heapBuild(heapify(e, n, i), n, i - 1) ELSE e

RECURSIVE heapExtract(_, _)
\* heapSort: for (let i = n - 1; i > 0; i--)
heapExtract(e, i) ==
    IF i > 0 THEN heapExtract(heapify(swapStep(e, 0, i), i, 0), i - 1) ELSE e

heapSort(e) ==
    LET n == Len(e.arr) IN heapExtract(heapBuild(e, n, (n \div 2) - 1), n - 1)

RECURSIVE ArrayMin(_)
\* Math.min(...arr) of a non-empty array
ArrayMin(a) == IF Len(a) = 1 THEN a[1] ELSE Min2(a[1], ArrayMin(Tail(a)))

RECURSIVE ArrayMax(_)
\* Math.max(...arr) of a non-empty array
ArrayMax(a) == IF Len(a) = 1 THEN a[1] ELSE Max2(a[1], ArrayMax(Tail(a)))

\* count[d] += delta on the array count; an index the array does not hold
\* makes a NaN property and leaves the elements as they are
CountAdd(count, d, delta) ==
    IF d >= 0 /\ d < Len(count) THEN JSPut(count, d, JSGet(count, d) + delta) ELSE count

\* output[count[d] - 1] = value; count[d] of an index the array does not hold
\* is NaN and the write sets no element
OutputPut(output, count, d, value) ==
    IF d >= 0 /\ d < Len(count) THEN JSPut(output, JSGet(count, d) - 1, value) ELSE output

\* new Array(size).fill(0)
Zeros(size) == [d \in 1..size |-> 0]

\* new Array(size)
Holes(size) == [d \in 1..size |-> Undefined]

RECURSIVE countOccurrences(_, _, _, _)
\* countingSort: count[arr[i] - min]++ for i = 0 .. n - 1
countOccurrences(a, min, count, i) ==
    IF i < Len(a)
    THEN countOccurrences(a, min, CountAdd(count, JSGet(a, i) - min, 1), i + 1)
    ELSE count

RECURSIVE cumulate(_, _)
\* count[i] += count[i - 1] for i = 1 .. count.length - 1
cumulate(count, i) ==
    IF i < Len(count)
    THEN cumulate(JSPut(count, i, JSGet(count, i) + JSGet(count, i - 1)), i + 1)
    ELSE count

RECURSIVE countingBuild(_, _, _, _, _)
\* countingSort: the output array, filled from i = n - 1 down to 0
countingBuild(a, min, count, output, i) ==
    IF i >= 0
    THEN LET value == JSGet(a, i)
         IN countingBuild(a, min, CountAdd(count, value - min, -1),
                          OutputPut(output, count, value - min, value), i - 1)
    ELSE output

RECURSIVE copyBack(_, _, _)
\* arr[i] = output[i]; await callbacks.set(i, output[i]) for i = 0 .. n - 1
copyBack(e, output, i) ==
    IF i < Len(e.arr)
    THEN copyBack(setEffect(ownWrite(e, i, JSGet(output, i)), i, JSGet(output, i)), output, i + 1)
    ELSE e

\* countingSort: new Array(range) throws a RangeError when range is no array
\* length; of the values of the model that is the range max - min + 1 of an
\* array that holds Infinity
countingSortThrows(a) ==
    Len(a) > 0 /\ ArrayMax(a) = Infinity

countingSort(e) ==
    IF Len(e.arr) = 0 \/ countingSortThrows(e.arr)
    THEN e
    ELSE LET min == ArrayMin(e.arr)
             range == ArrayMax(e.arr) - min + 1
             n == Len(e.arr)
             count == cumulate(countOccurrences(e.arr, min, Zeros(range), 0), 1)
             output == countingBuild(e.arr, min, count, Holes(n), n - 1)
         IN copyBack(e, output, 0)

\* Math.floor(arr[i] / exp) % 10, for the non-negative values of the model
Digit(v, exp) == (v \div exp) % 10

RECURSIVE digitOccurrences(_, _, _, _)
\* countingSortByDigit: count[digit]++ for i = 0 .. n - 1
digitOccurrences(a, exp, count, i) ==
    IF i < Len(a)
    THEN digitOccurrences(a, exp, CountAdd(count, Digit(JSGet(a, i), exp), 1), i + 1)
    ELSE count

RECURSIVE digitBuild(_, _, _, _, _)
\* countingSortByDigit: the output array, filled from i = n - 1 down to 0
digitBuild(a, exp, count, output, i) ==
    IF i >= 0
    THEN LET digit == Digit(JSGet(a, i), exp)
         IN digitBuild(a, exp, CountAdd(count, digit, -1),
                       OutputPut(output, count, digit, JSGet(a, i)), i - 1)
    ELSE output

countingSortByDigit(e, exp) ==
    LET n == Len(e.arr)
        count == cumulate(digitOccurrences(e.arr, exp, Zeros(10), 0), 1)
        output == digitBuild(e.arr, exp, count, Holes(n), n - 1)
    IN copyBack(e, output, 0)

RECURSIVE radixLoop(_, _, _)
\* radixSort: while (Math.floor(max / exp) > 0); max is read once, before the loop
radixLoop(e, max, exp) ==
    IF max \div exp > 0
    THEN radixLoop(countingSortByDigit(e, exp), max, exp * 10)
    ELSE e

radixSort(e) ==
    IF Len(e.arr) = 0 THEN e ELSE radixLoop(e, ArrayMax(e.arr), 1)

RECURSIVE shellInner(_, _, _)
\* shellSort: while (j >= gap); yields the environment and j
shellInner(e, gap, j) ==
    IF j >= gap
    THEN LET e1 == compareEffect(e, j - gap, j)
         IN IF ~compareResult(e1, j - gap, j)
            THEN [e |-> e1, j |-> j]
            ELSE shellInner(swapStep(e1, j - gap, j), gap, j - gap)
    ELSE [e |-> e, j |-> j]

RECURSIVE shellPass(_, _, _, _)
\* shellSort: for (let i = gap; i < n; i++), ending in arr[j] = temp
shellPass(e, n, gap, i) ==
    IF i < n
    THEN LET temp == JSGet(e.arr, i)
             r == shellInner(e, gap, i)
         IN shellPass(ownWrite(r.e, r.j, temp), n, gap, i + 1)
    ELSE e

RECURSIVE shellGaps(_, _, _)
\* shellSort: for (let gap = Math.floor(n / 2); gap > 0; gap = Math.floor(gap / 2))
shellGaps(e, n, gap) ==
    IF gap > 0 THEN shellGaps(shellPass(e, n, gap, gap), n, gap \div 2) ELSE e

shellSort(e) == LET n == Len(e.arr) IN shellGaps(e, n, n \div 2)

\* the registry sortingAlgorithms
sortingAlgorithms ==
    {"bubble-sort", "selection-sort", "insertion-sort", "merge-sort", "quick-sort",
     "heap-sort", "counting-sort", "radix-sort", "shell-sort"}

\* getSortingAlgorithm(name) applied to the environment of a run
getSortingAlgorithm(name, e) ==
    CASE name = "bubble-sort" -> bubbleSort(e)
      [] name = "selection-sort" -> selectionSort(e)
      [] name = "insertion-sort" -> insertionSort(e)
      [] name = "merge-sort" -> mergeSort(e)
      [] name = "quick-sort" -> quickSort(e)
      [] name = "heap-sort" -> heapSort(e)
      [] name = "counting-sort" -> countingSort(e)
      [] name = "radix-sort" -> radixSort(e)
      [] name = "shell-sort" -> shellSort(e)

\* the ExecutionResult record; error is "" when the field is absent
ExecutionResult(success, finalArray, comparisons, swaps, accesses, name) ==
    [success |-> success, finalArray |-> finalArray, totalComparisons |-> comparisons,
     totalSwaps |-> swaps, totalAccesses |-> accesses, algorithmName |-> name,
     error |-> ""]

\* AlgorithmEngine.execute when nothing interferes: fresh state, the generator
\* driven to its end, the result built from the state and the monitor
executeToCompletion(name, inputArray) ==
    LET st0 == [createInitialState EXCEPT !.array = 1, !.algorithmName = name,
                                          !.isRunning = TRUE]
        e == getSortingAlgorithm(name, Env(st0, createInitialMetrics, inputArray))
    IN ExecutionResult(~e.st.isStopped, e.arr, e.st.comparisons, e.st.swaps,
                       e.mon.memoryAccesses, name)

-----------------------------------------------------------------------------
(* The engine, one macrotask at a time.                                     *)
(*                                                                          *)
(* A configuration c holds the engine's fields together with the locals of  *)
(* the one run being executed (c.run) and the result it settles with. The   *)
(* phase c.run.ph says where the run is:                                    *)
(*   suspended on a timer or a signal: "poll" (waitIfPaused's sleep(100)),  *)
(*     "delay" (a primitive's sleep after its effect), "step" (waitForStep),*)
(*     "sweep" (execute's final sleep per bar);                             *)
(*   running, between two suspensions: "go" (generator code at c.run.pc),   *)
(*     "enter" (entry of a primitive), "yield" (body of execute's for await)*)
(*     "end" (the generator finished), "throw" (an error reaches execute's  *)
(*     catch), "after" (execute after its loop), "finish" (the result);     *)
(*   "idle" before execute is called and "done" once its promise settled.   *)

Suspended == {"poll", "delay", "step", "sweep"}

\* the calls of executeRun the model has room for
RunLimit == MaxRuns + 1

\* the array object the caller of run r passes as config.inputArray
CallerArray(r) == RunLimit + r

\* the array objects: 0 and the copies of the runs, then the callers' arrays
HeapIds == 0..(2 * RunLimit)

\* the locals of a call of execute that has not happened yet
IdleRun ==
    [ph |-> "idle", algo |-> "", arr |-> 0, pc |-> "", prim |-> "", a1 |-> 0, a2 |-> 0,
     ret |-> "", n |-> 0, i |-> 0, j |-> 0, k |-> 0, swapped |-> FALSE, retval |-> FALSE,
     min |-> 0, count |-> <<>>, output |-> <<>>,
     \* history of the run, read by the properties only
     input |-> <<>>, mode |-> "", steps |-> 0, start |-> <<>>,
     sets |-> 0,     \* calls of callbacks.set that took effect
     entry |-> 0,    \* this.speed when the primitive in progress was called
     sleeps |-> 0,   \* sleeps of primitives begun
     base |-> 0,     \* getDelay() of the last of them
     slept |-> 0,    \* the duration of the last of them, in quarters of a millisecond
     unslept |-> FALSE,     \* a primitive took effect and returned without a sleep
     pre |-> <<>>,   \* the working array when callbacks.swap was last called
     polled |-> FALSE,      \* the run has suspended in waitIfPaused
     ownComparisons |-> 0,  \* calls of callbacks.compare by this run that took effect
     ownSwaps |-> 0,        \* calls of callbacks.swap by this run that took effect
     ownArray |-> <<>>,     \* the run's own array (arr) when its Result was built
     stopCalled |-> FALSE, resetCalled |-> FALSE,
     completed |-> FALSE, cancelled |-> FALSE, faulted |-> FALSE]

\* the result slot of a promise that has not settled
NoResult ==
    [settled |-> "pending", success |-> FALSE, finalArray |-> <<>>, totalComparisons |-> 0,
     totalSwaps |-> 0, totalAccesses |-> 0, algorithmName |-> "", error |-> ""]

\* the speed level to milliseconds per step
animationSpeed == <<1000, 800, 600, 400, 250, 150, 100, 50, 25, 10>>

\* getDelayForSpeed without its Math.max and Math.min: a speed that is no key
\* of the table gets animationSpeed[5]
getDelayForSpeedUnclamped(s) ==
    IF s \in DOMAIN animationSpeed THEN animationSpeed[s] ELSE animationSpeed[5]

\* getDelayForSpeed
getDelayForSpeed(s) == animationSpeed[Max2(1, Min2(10, s))]

\* AlgorithmEngine.getDelay
getDelay(c) == getDelayForSpeed(c.speed)

\* what a primitive of configuration c reads and writes
CEnv(c) == Env(c.state, c.metrics, c.heap[c.state.array])

\* the configuration after a primitive changed the environment to e
WithEnv(c, e) ==
    [c EXCEPT !.state = e.st, !.metrics = e.mon, !.heap[c.state.array] = e.arr, !.acted = TRUE]

\* the generator calls await callbacks.<prim>(a1, a2) and goes on at ret
callPrim(c, prim, a1, a2, ret) ==
    [c EXCEPT !.run.ph = "enter", !.run.prim = prim, !.run.a1 = a1, !.run.a2 = a2,
              !.run.ret = ret]

\* the generator yields a descriptor and goes on at ret when resumed
yieldStep(c, ret) == [c EXCEPT !.run.ph = "yield", !.run.ret = ret]

\* the generator goes on at pc
goto(c, pc) == [c EXCEPT !.run.pc = pc]

\* if (callbacks.shouldStop()) return
returnOnStop(c) == [c EXCEPT !.run.ph = "end", !.run.cancelled = TRUE]

\* callbacks.shouldStop
shouldStop(c) == c.state.isStopped

\* a primitive returns to the generator
primReturn(c) == [c EXCEPT !.run.ph = "go", !.run.pc = c.run.ret]

\* a primitive's calls of the consumer without their try and catch: what the
\* consumer raises leaves the primitive
renderUncaught(c) ==
    IF c.visualization = "throws"
    THEN [c EXCEPT !.run.ph = "throw", !.run.faulted = TRUE]
    ELSE c

\* a primitive's calls of the consumer, try { if (this.visualization) ... }
\* catch { }: whatever the consumer does, nothing of the engine changes
render(c) == c

\* the part of a primitive between waitIfPaused and its sleep
primEffect(c) ==
    LET r == c.run
        e == CEnv(c)
    IN render(CASE r.prim = "compare" -> [WithEnv(c, compareEffect(e, r.a1, r.a2))
                                             EXCEPT !.run.ownComparisons = @ + 1]
                [] r.prim = "swap" -> [WithEnv(c, swapEffect(e, r.a1, r.a2))
                                          EXCEPT !.run.ownSwaps = @ + 1]
                [] r.prim = "set" -> [WithEnv(c, setEffect(e, r.a1, r.a2))
                                         EXCEPT !.run.sets = @ + 1]
                [] OTHER -> [c EXCEPT !.acted = TRUE])

\* the argument of the primitive's sleep, in quarters of a millisecond:
\* getDelay() in compare and swap, getDelay() / 2 in set, getDelay() / 4 in
\* markSorted
primDelay(c) ==
    CASE c.run.prim = "set" -> 2 * getDelay(c)
      [] c.run.prim = "markSorted" -> getDelay(c)
      [] OTHER -> 4 * getDelay(c)

\* the primitive goes on to its sleep, unless an error left it
primSleep(c) ==
    IF c.run.ph = "throw"
    THEN c
    ELSE [c EXCEPT !.run.ph = "delay", !.run.sleeps = @ + 1, !.run.base = getDelay(c),
                   !.run.slept = primDelay(c)]

\* a waitIfPaused that never reads the flags again once it sleeps
waitIfPausedLatched(c) == (c.state.isPaused \/ c.run.ph = "poll") /\ ~c.state.isStopped

\* waitIfPaused: while (this.state.isPaused && !this.state.isStopped)
waitIfPaused(c) == c.state.isPaused /\ ~c.state.isStopped

\* entry of a primitive, up to its first suspension
primEnter(c0) ==
    LET c == [c0 EXCEPT !.run.entry = c0.speed,
                        !.run.pre = IF c0.run.prim = "swap"
                                    THEN c0.heap[c0.state.array] ELSE @]
    IN IF c.run.prim \in {"compare", "swap", "set"}
       THEN IF c.state.isStopped
            THEN [c EXCEPT !.run.ph = "throw", !.run.cancelled = TRUE]
            ELSE IF waitIfPaused(c)
            THEN [c EXCEPT !.run.ph = "poll", !.run.polled = TRUE]
            ELSE primSleep(primEffect(c))
       ELSE IF c.state.isStopped
       THEN primReturn(c)
       ELSE IF c.run.prim = "markSorted"
       THEN primSleep(primEffect(c))
       ELSE LET d == primEffect(c)        \* highlight does not sleep
            IN IF d.run.ph = "throw" THEN d ELSE primReturn([d EXCEPT !.run.unslept = TRUE])

\* callbacks.compare returns this.state.array[i] > this.state.array[j]
compareReturn(c) ==
    primReturn([c EXCEPT !.run.retval = compareResult(CEnv(c), c.run.a1, c.run.a2)])

\* AlgorithmEngine.waitForStep: the promise's resolve replaces stepResolve
waitForStep(c, r) == [c EXCEPT !.run.ph = "step", !.stepResolve = r]

\* bubbleSort as a generator: the code at c.run.pc up to the next await or yield
bubbleSortGo(c) ==
    LET r == c.run
    IN CASE r.pc = "start" ->
              goto([c EXCEPT !.run.n = Len(c.heap[r.arr]), !.run.i = 0], "outerTest")
         [] r.pc = "outerTest" ->
              IF r.i < r.n - 1
              THEN goto([c EXCEPT !.run.swapped = FALSE, !.run.j = 0], "innerTest")
              ELSE goto(c, "markFirst")
         [] r.pc = "innerTest" ->
              IF r.j < r.n - r.i - 1
              THEN IF shouldStop(c)
                   THEN returnOnStop(c)
                   ELSE callPrim(c, "compare", r.j, r.j + 1, "compareRet")
              ELSE callPrim(c, "markSorted", r.n - r.i - 1, 0, "markLastRet")
         [] r.pc = "compareRet" -> yieldStep(c, "compareYielded")
         [] r.pc = "compareYielded" ->
              IF r.retval
              THEN callPrim(c, "swap", r.j, r.j + 1, "swapRet")
              ELSE goto([c EXCEPT !.run.j = @ + 1], "innerTest")
         [] r.pc = "swapRet" ->
              yieldStep([c EXCEPT !.heap[r.arr] = SwapInPlace(@, r.j, r.j + 1),
                                  !.run.swapped = TRUE], "swapYielded")
         [] r.pc = "swapYielded" -> goto([c EXCEPT !.run.j = @ + 1], "innerTest")
         [] r.pc = "markLastRet" ->
              IF ~r.swapped
              THEN goto([c EXCEPT !.run.k = 0], "restTest")
              ELSE goto([c EXCEPT !.run.i = @ + 1], "outerTest")
         [] r.pc = "restTest" ->
              IF r.k < r.n - r.i - 1
              THEN callPrim(c, "markSorted", r.k, 0, "restRet")
              ELSE goto(c, "markFirst")
         [] r.pc = "restRet" -> goto([c EXCEPT !.run.k = @ + 1], "restTest")
         [] r.pc = "markFirst" -> callPrim(c, "markSorted", 0, 0, "markFirstRet")
         [] r.pc = "markFirstRet" -> yieldStep(c, "completeYielded")
         [] r.pc = "completeYielded" -> [c EXCEPT !.run.ph = "end", !.run.completed = TRUE]

\* countingSort as a generator: the code at c.run.pc up to the next await or yield
countingSortGo(c) ==
    LET r == c.run
        arr == c.heap[r.arr]
    IN CASE r.pc = "start" ->
              IF Len(arr) = 0
              THEN [c EXCEPT !.run.ph = "end", !.run.completed = TRUE]
              ELSE IF countingSortThrows(arr)
              THEN [c EXCEPT !.run.ph = "throw", !.run.faulted = TRUE]
              ELSE goto([c EXCEPT !.run.min = ArrayMin(arr),
                                  !.run.count = Zeros(ArrayMax(arr) - ArrayMin(arr) + 1),
                                  !.run.output = Holes(Len(arr)),
                                  !.run.i = 0], "countTest")
         [] r.pc = "countTest" ->
              IF r.i < Len(arr)
              THEN IF shouldStop(c)
                   THEN returnOnStop(c)
                   ELSE callPrim([c EXCEPT !.run.count = CountAdd(@, JSGet(arr, r.i) - r.min, 1)],
                                 "highlight", r.i, 0, "countHighlighted")
              ELSE goto([c EXCEPT !.run.count = cumulate(@, 1), !.run.i = Len(arr) - 1],
                        "buildTest")
         [] r.pc = "countHighlighted" -> yieldStep(c, "countYielded")
         [] r.pc = "countYielded" -> callPrim(c, "highlight", r.i, 0, "countReset")
         [] r.pc = "countReset" -> goto([c EXCEPT !.run.i = @ + 1], "countTest")
         [] r.pc = "buildTest" ->
              IF r.i >= 0
              THEN IF shouldStop(c)
                   THEN returnOnStop(c)
                   ELSE LET value == JSGet(arr, r.i)
                            d == value - r.min
                        IN callPrim([c EXCEPT !.run.output = OutputPut(@, r.count, d, value),
                                              !.run.count = CountAdd(@, d, -1)],
                                    "highlight", r.i, 0, "buildHighlighted")
              ELSE goto([c EXCEPT !.run.i = 0], "copyTest")
         [] r.pc = "buildHighlighted" -> yieldStep(c, "buildYielded")
         [] r.pc = "buildYielded" -> goto([c EXCEPT !.run.i = @ - 1], "buildTest")
         [] r.pc = "copyTest" ->
              IF r.i < Len(arr)
              THEN IF shouldStop(c)
                   THEN returnOnStop(c)
                   ELSE callPrim([c EXCEPT !.heap[r.arr] = JSPut(@, r.i, JSGet(r.output, r.i))],
                                 "set", r.i, JSGet(r.output, r.i), "setRet")
              ELSE yieldStep(c, "completeYielded")
         [] r.pc = "setRet" -> callPrim(c, "markSorted", r.i, 0, "markRet")
         [] r.pc = "markRet" -> yieldStep(c, "setYielded")
         [] r.pc = "setYielded" -> goto([c EXCEPT !.run.i = @ + 1], "copyTest")
         [] r.pc = "completeYielded" -> [c EXCEPT !.run.ph = "end", !.run.completed = TRUE]

\* the "algorithm" found under the name constructor is Object: Object(arr,
\* callbacks) returns arr, and for await takes the array's elements one by
\* one as if they were the steps of a sequence
arrayIteratorGo(c) ==
    LET r == c.run
    IN CASE r.pc = "start" -> goto([c EXCEPT !.run.i = 0], "iterTest")
         [] r.pc = "iterTest" ->
              IF r.i < Len(c.heap[r.arr])
              THEN yieldStep(c, "iterNext")
              ELSE [c EXCEPT !.run.ph = "end", !.run.completed = TRUE]
         [] r.pc = "iterNext" -> goto([c EXCEPT !.run.i = @ + 1], "iterTest")

\* the generator of the run's algorithm, one piece of code
generatorGo(c) ==
    IF c.run.algo = "bubble-sort" THEN bubbleSortGo(c)
    ELSE IF c.run.algo = "counting-sort" THEN countingSortGo(c)
    ELSE arrayIteratorGo(c)

\* execute's catch block: the error is logged unless it is the cancellation,
\* and is never rethrown
executeCatch(c) == [c EXCEPT !.run.ph = "finish"]

\* execute: the body of for await (const step of this.currentGenerator);
\* break makes the generator return where it is suspended
executeLoopBody(c) ==
    IF c.state.isStopped
    THEN [c EXCEPT !.run.ph = "after", !.run.cancelled = TRUE]
    ELSE [c EXCEPT !.run.ph = "go", !.run.pc = c.run.ret]

\* execute: one round of the final loop that marks every bar sorted, k the
\* loop variable; the loop has no check of isStopped, and a call of the
\* consumer that raises ends it
executeSweep(c) ==
    IF c.run.k < Len(c.heap[c.state.array]) /\ c.visualization # "throws"
    THEN [c EXCEPT !.run.ph = "sweep"]
    ELSE [c EXCEPT !.run.ph = "finish"]

\* execute after its loop: if (!this.state.isStopped && this.visualization)
executeAfterLoop(c) ==
    IF ~c.state.isStopped /\ c.visualization # "null"
    THEN executeSweep([c EXCEPT !.run.k = 0])
    ELSE [c EXCEPT !.run.ph = "finish"]

\* executeFinish with the success flag no longer taken from isStopped: the
\* variant C8 must tell apart from the code
executeFinishAlwaysSuccess(c) ==
    [c EXCEPT !.metrics.ended = TRUE,
              !.result = ExecutionResult(TRUE, c.heap[c.state.array],
                                         c.state.comparisons, c.state.swaps,
                                         c.metrics.memoryAccesses, c.run.algo)
                          @@ [settled |-> "resolved"],
              !.state.isRunning = FALSE,
              !.run.ph = "done"]

\* execute from performanceMonitor.stop() to return result
executeFinish(c) ==
    [c EXCEPT !.metrics.ended = TRUE,
              !.result = ExecutionResult(~c.state.isStopped, c.heap[c.state.array],
                                         c.state.comparisons, c.state.swaps,
                                         c.metrics.memoryAccesses, c.run.algo)
                          @@ [settled |-> "resolved"],
              !.state.isRunning = FALSE,
              !.run.ph = "done"]

\* one piece of code that takes no time
advanceStep(c) ==
    CASE c.run.ph = "go" -> generatorGo(c)
      [] c.run.ph = "enter" -> primEnter(c)
      [] c.run.ph = "yield" -> executeLoopBody(c)
      [] c.run.ph = "end" -> [c EXCEPT !.run.ph = "after"]
      [] c.run.ph = "throw" -> executeCatch(c)
      [] c.run.ph = "after" -> executeAfterLoop(c)
      [] c.run.ph = "finish" -> executeFinish([c EXCEPT !.run.ownArray = c.heap[c.run.arr]])

RECURSIVE advance(_)
\* the run goes on until it suspends or its promise settles
advance(c) ==
    IF c.run.ph \in Suspended \cup {"done"} THEN c
    ELSE CHOOSE c1 \in {advance(c0) : c0 \in {advanceStep(c)}} : TRUE

\* a suspended run wakes up: its timer fired or its step signal came
wake(c, r) ==
    CASE c.run.ph = "poll" -> primSleep(primEffect(c))
      [] c.run.ph = "delay" ->
           IF c.run.prim = "compare"
           THEN IF c.animationMode = "step" THEN waitForStep(c, r) ELSE compareReturn(c)
           ELSE primReturn(c)
      [] c.run.ph = "step" -> compareReturn(c)
      [] c.run.ph = "sweep" -> executeSweep([c EXCEPT !.run.k = @ + 1])

\* the configuration of run r in the current state
Config(r) ==
    [state |-> state, heap |-> heap, metrics |-> metrics, speed |-> speed,
     animationMode |-> animationMode, stepResolve |-> stepResolve,
     visualization |-> visualization, run |-> runs[r], result |-> results[r],
     acted |-> FALSE]

\* configuration c seen by run r: the locals and the result are r's own
ConfigOf(c, r, allRuns, allResults) ==
    [c EXCEPT !.run = allRuns[r], !.result = allResults[r], !.acted = FALSE]

\* AlgorithmEngine.stop on the engine fields of c (the pending step is
\* released by the caller, which knows whose it is)
stop(c) ==
    [c EXCEPT !.state.isStopped = TRUE, !.state.isRunning = FALSE,
              !.state.isPaused = FALSE, !.stepResolve = 0]

\* the runs whose promise has not settled
InFlight(allRuns) == {r \in DOMAIN allRuns : allRuns[r].ph \notin {"idle", "done"}}

\* history: a call of stop() reached every run whose generator has not finished
markStopCalled(allRuns) ==
    [r \in DOMAIN allRuns |->
        IF r \in InFlight(allRuns) /\ allRuns[r].ph # "sweep"
        THEN [allRuns[r] EXCEPT !.stopCalled = TRUE]
        ELSE allRuns[r]]

\* history: a call of reset() reached every run whose generator has not finished
markResetCalled(allRuns) ==
    [r \in DOMAIN allRuns |->
        IF r \in InFlight(allRuns) /\ allRuns[r].ph # "sweep"
        THEN [allRuns[r] EXCEPT !.stopCalled = TRUE, !.resetCalled = TRUE]
        ELSE allRuns[r]]

\* a settled run keeps its history and nothing else: its generator is gone
Collect(run) ==
    IF run.ph = "done"
    THEN [IdleRun EXCEPT !.ph = "done", !.algo = run.algo, !.input = run.input,
                         !.mode = run.mode, !.steps = run.steps, !.start = run.start,
                         !.sets = run.sets, !.ownArray = run.ownArray,
                         !.polled = run.polled, !.stopCalled = run.stopCalled,
                         !.completed = run.completed, !.cancelled = run.cancelled,
                         !.faulted = run.faulted]
    ELSE run

\* an array object is reachable from this.state or from a generator in
\* flight, or it is a caller's
Reachable(id, st, allRuns) ==
    \/ id = st.array
    \/ \E r \in InFlight(allRuns) : allRuns[r].arr = id
    \/ id > RunLimit

\* the variables take the fields of configuration c, run r its locals and
\* result; what no reference leads to any more is dropped
Install(c, r, allRuns, allResults, who) ==
    LET newRuns == [q \in DOMAIN allRuns |-> Collect(IF q = r THEN c.run ELSE allRuns[q])]
    IN /\ state' = c.state
       /\ heap' = [id \in DOMAIN c.heap |->
                     IF Reachable(id, c.state, newRuns) THEN c.heap[id] ELSE <<>>]
       /\ metrics' = c.metrics
       /\ speed' = c.speed
       /\ animationMode' = c.animationMode
       /\ stepResolve' = c.stepResolve
       /\ visualization' = c.visualization
       /\ runs' = newRuns
       /\ results' = [allResults EXCEPT ![r] = c.result]
       /\ actors' = who

-----------------------------------------------------------------------------
(* The engine's actions *)

\* the inputs of executeRun in the engine's behaviours: algorithm and array.
\* The last one makes countingSort's new Array(range) throw.
RunInputs ==
    {<<"bubble-sort", <<2, 1>>>>,
     <<"bubble-sort", <<1, 2, 3>>>>,
     <<"counting-sort", <<1, 0>>>>,
     <<"counting-sort", <<0, Infinity>>>>}

\* the speeds executeRun is called with
RunSpeeds == {10}

\* the value JavaScript's NaN is modelled by
NaN == -2

\* validateArray's default maxSize
maxSize == 500

\* validateArray: the array is accepted
validateArray(arr) ==
    /\ Len(arr) # 0
    /\ Len(arr) <= maxSize
    /\ \A p \in 1..Len(arr) : arr[p] # NaN

\* names that every object inherits a property for from Object.prototype
InheritedNames == {"constructor"}

\* getSortingAlgorithm as the executor uses it: sortingAlgorithms[name] || null,
\* a lookup that also finds inherited properties
registryLookup(name) ==
    IF name \in sortingAlgorithms \cup InheritedNames THEN name ELSE "null"

\* the runs with a primitive effect while c was executed, r being c's run
Who(c, r) == IF c.acted THEN {r} ELSE {}

\* execute with this.state kept from the run before instead of replaced by
\* createInitialState()
executeStartKeepsState(c, r, name, inputArray, spd, mode) ==
    [c EXCEPT !.state = [c.state EXCEPT !.array = r, !.algorithmName = name,
                                        !.isRunning = TRUE],
              !.heap[r] = inputArray,
              !.speed = spd,
              !.animationMode = mode,
              !.metrics = createInitialMetrics,
              !.run = [IdleRun EXCEPT !.ph = "go", !.algo = name, !.arr = r, !.pc = "start",
                                      !.input = inputArray, !.mode = mode],
              !.result = NoResult,
              !.acted = FALSE]

\* execute with array: config.inputArray instead of the copy
\* [...config.inputArray]: the engine works on the caller's array
executeStartShared(c, r, name, inputArray, spd, mode) ==
    [c EXCEPT !.state = [createInitialState EXCEPT !.array = CallerArray(r),
                                                   !.algorithmName = name,
                                                   !.isRunning = TRUE],
              !.speed = spd,
              !.animationMode = mode,
              !.metrics = createInitialMetrics,
              !.run = [IdleRun EXCEPT !.ph = "go", !.algo = name, !.arr = CallerArray(r),
                                      !.pc = "start", !.input = inputArray, !.mode = mode],
              !.result = NoResult,
              !.acted = FALSE]

\* AlgorithmEngine.execute up to the creation of the generator; heap[r] is
\* the copy [...config.inputArray] of the caller's array
executeStart(c, r, name, inputArray, spd, mode) ==
    [c EXCEPT !.state = [createInitialState EXCEPT !.array = r, !.algorithmName = name,
                                                   !.isRunning = TRUE],
              !.heap[r] = c.heap[CallerArray(r)],
              !.speed = spd,
              !.animationMode = mode,
              !.metrics = createInitialMetrics,
              !.run = [IdleRun EXCEPT !.ph = "go", !.algo = name, !.arr = r, !.pc = "start",
                                      !.input = inputArray, !.mode = mode],
              !.result = NoResult,
              !.acted = FALSE]

\* CanvasCommandExecutor.executeRun from its call of stop on: it stops the
\* engine if it is running, then calls execute, which replaces this.state before the stopped run can look
\* at it. A compare released by that stop goes on in the same macrotask; how
\* its microtasks interleave with the new generator's is not modelled, both
\* orders are.
StartRun(name, inputArray, spd, mode, oldFirst, limit) ==
    /\ nextRun <= limit
    /\ LET r == nextRun
           wasRunning == state.isRunning
           released == IF wasRunning THEN stepResolve ELSE 0
           runs1 == IF wasRunning THEN markStopCalled(runs) ELSE runs
           c1 == IF wasRunning THEN stop(Config(r)) ELSE Config(r)
           \* options.inputArray, the caller's array
           cc == [c1 EXCEPT !.heap[CallerArray(r)] = inputArray]
           c0 == executeStart(cc, r, name, inputArray, spd, mode)
           \* history: the engine state and the array the run starts from
           c2 == [c0 EXCEPT !.run.start = <<c0.state, c0.heap[c0.state.array]>>]
       IN IF released = 0
          THEN LET c3 == advance(c2)
               IN Install(c3, r, runs1, results, Who(c3, r))
          ELSE IF oldFirst
          THEN LET runsA == [runs1 EXCEPT ![r] = c2.run]
                   o == advance(wake(ConfigOf(c2, released, runsA, results), released))
                   runsB == [runsA EXCEPT ![released] = o.run]
                   resultsB == [results EXCEPT ![released] = o.result]
                   c3 == advance(ConfigOf(o, r, runsB, resultsB))
               IN Install(c3, r, runsB, resultsB, Who(o, released) \cup Who(c3, r))
          ELSE LET c3 == advance(c2)
                   runsA == [runs1 EXCEPT ![r] = c3.run]
                   resultsA == [results EXCEPT ![r] = c3.result]
                   o == advance(wake(ConfigOf(c3, released, runsA, resultsA), released))
               IN Install(o, released, runsA, resultsA, Who(c3, r) \cup Who(o, released))
    /\ nextRun' = nextRun + 1
    /\ runError' = ""
    /\ supplied' = spd
    /\ UNCHANGED sortVars

\* AlgorithmEngine.reset on the engine fields of c: stop, a new initial
\* state with a new empty array, and PerformanceMonitor.reset
reset(c) ==
    [stop(c) EXCEPT !.state = createInitialState, !.heap[0] = <<>>,
                    !.metrics = createInitialMetrics]

\* a call from outside a run that stops the engine and leaves it as c1 and
\* the runs as runs1: the compare whose step the stop releases goes on
\* afterwards
ReleaseAfter(c1, runs1) ==
    LET released == stepResolve
    IN IF released = 0
       THEN Install(ConfigOf(c1, 1, runs1, results), 1, runs1, results, {})
       ELSE LET o == advance(wake(ConfigOf(c1, released, runs1, results), released))
            IN Install(o, released, runs1, results, Who(o, released))

\* AlgorithmEngine.stop called from outside a run
StopEngine == ReleaseAfter(stop(Config(1)), markStopCalled(runs))

\* a call that leaves the engine as it is
EngineUnchanged ==
    /\ UNCHANGED <<state, heap, metrics, speed, animationMode, stepResolve,
                   visualization, runs, results>>
    /\ actors' = {}

\* CanvasCommandExecutor.executeRun. An unknown name returns a Result with
\* an error; then the engine is stopped if it is running; then an invalid
\* array makes the call throw; then execute is called.
ExecuteRun(name, inputArray, spd, mode, oldFirst, limit) ==
    IF registryLookup(name) = "null"
    THEN /\ EngineUnchanged
         /\ runError' = "UnknownAlgorithm"
         /\ UNCHANGED <<nextRun, supplied, sortVars>>
    ELSE IF ~validateArray(inputArray)
    THEN /\ IF state.isRunning THEN StopEngine ELSE EngineUnchanged
         /\ runError' = "InvalidArray"
         /\ UNCHANGED <<nextRun, supplied, sortVars>>
    ELSE StartRun(registryLookup(name), inputArray, spd, mode, oldFirst, limit)

\* CanvasCommandExecutor.executeStop
ExecuteStop ==
    /\ StopEngine
    /\ UNCHANGED <<nextRun, runError, supplied, sortVars>>

\* CanvasCommandExecutor.reset
ExecuteReset ==
    /\ ReleaseAfter(reset(Config(1)), markResetCalled(runs))
    /\ UNCHANGED <<nextRun, runError, supplied, sortVars>>

\* AlgorithmEngine.step on the engine fields of c, with a step pending: the
\* resolve function is called and forgotten
step(c) == [c EXCEPT !.stepResolve = 0, !.run.steps = @ + 1]

\* CanvasCommandExecutor.executeStep: AlgorithmEngine.step; the compare it
\* releases goes on, and without a pending step nothing happens
ExecuteStep ==
    IF stepResolve = 0
    THEN UNCHANGED vars
    ELSE /\ LET released == stepResolve
                o == advance(wake(step(Config(released)), released))
            IN Install(o, released, runs, results, Who(o, released))
         /\ UNCHANGED <<nextRun, runError, supplied, sortVars>>

\* AlgorithmEngine.pause, called on the engine itself
Pause ==
    /\ state' = [state EXCEPT !.isPaused = TRUE]
    /\ actors' = {}
    /\ UNCHANGED <<heap, metrics, speed, animationMode, stepResolve, visualization,
                   runs, results, nextRun, runError, supplied, sortVars>>

\* AlgorithmEngine.resume, called on the engine itself
Resume ==
    /\ state' = [state EXCEPT !.isPaused = FALSE]
    /\ actors' = {}
    /\ UNCHANGED <<heap, metrics, speed, animationMode, stepResolve, visualization,
                   runs, results, nextRun, runError, supplied, sortVars>>

\* CanvasCommandExecutor.executePause
ExecutePause ==
    /\ state.isRunning
    /\ state' = [state EXCEPT !.isPaused = TRUE]
    /\ actors' = {}
    /\ UNCHANGED <<heap, metrics, speed, animationMode, stepResolve, visualization,
                   runs, results, nextRun, runError, supplied, sortVars>>

\* CanvasCommandExecutor.executeResume
ExecuteResume ==
    /\ state.isPaused
    /\ state' = [state EXCEPT !.isPaused = FALSE]
    /\ actors' = {}
    /\ UNCHANGED <<heap, metrics, speed, animationMode, stepResolve, visualization,
                   runs, results, nextRun, runError, supplied, sortVars>>

\* AlgorithmEngine.setSpeed
setSpeed(c, n) == [c EXCEPT !.speed = Max2(1, Min2(10, n))]

\* CanvasCommandExecutor.setSpeed
SetSpeed(n) ==
    /\ speed' = setSpeed(Config(1), n).speed
    /\ supplied' = n
    /\ actors' = {}
    /\ UNCHANGED <<state, heap, metrics, animationMode, stepResolve, visualization,
                   runs, results, nextRun, runError, sortVars>>

\* run r sleeps on a timer: the sleep of a primitive, sleep(100) in
\* waitIfPaused, or the sleep of execute's final loop
TimerPending(r) == runs[r].ph \in {"poll", "delay", "sweep"}

\* the timer run r sleeps on fires; a poll that finds the run still paused
\* sleeps again and changes nothing
TimerFires(r) ==
    /\ TimerPending(r)
    /\ runs[r].ph = "poll" => ~waitIfPaused(Config(r))
    /\ \E c0 \in {Config(r)} : \E c1 \in {wake(c0, r)} : \E c \in {advance(c1)} :
          Install(c, r, runs, results, Who(c, r))
    /\ UNCHANGED <<nextRun, runError, supplied, sortVars>>

Init ==
    /\ state = createInitialState
    /\ heap = [id \in HeapIds |-> <<>>]
    /\ metrics = createInitialMetrics
    /\ speed = 5
    /\ animationMode = "continuous"
    /\ stepResolve = 0
    /\ visualization = "ok"
    /\ runs = [r \in 1..RunLimit |-> IdleRun]
    /\ results = [r \in 1..RunLimit |-> NoResult]
    /\ nextRun = 1
    /\ runError = ""
    /\ supplied = 5
    /\ actors = {}
    /\ sortAlgo = ""
    /\ sortInput = <<>>
    /\ sortResult = <<>>

\* a call of executeRun with one of inputs, the (limit)th to start a run at most
RunWith(inputs, modes, limit) ==
    \E in \in inputs, spd \in RunSpeeds, mode \in modes, oldFirst \in BOOLEAN :
        ExecuteRun(in[1], in[2], spd, mode, oldFirst, limit)

\* a call of executeRun, the (limit)th at most
SomeRun(limit) == RunWith(RunInputs, {"step", "continuous"}, limit)

\* everything but executeRun
Others ==
    \/ ExecuteStop
    \/ ExecuteStep
    \/ ExecutePause
    \/ ExecuteResume
    \/ \E r \in 1..RunLimit : TimerFires(r)

Next == SomeRun(MaxRuns) \/ Others

\* the behaviours with MaxRuns calls of executeRun
Spec == Init /\ [][Next]_vars

NextRuns == SomeRun(RunLimit) \/ Others

\* the behaviours with one more call of executeRun, so that a run can be
\* superseded
RunsSpec == Init /\ [][NextRuns]_vars

\* an array longer than validateArray allows
TooLong == [p \in 1..(maxSize + 1) |-> 0]

\* calls of executeRun with names that are no algorithm's and with arrays
\* validateArray rejects, next to a call that is in order
CallInputs ==
    {<<"bubble-sort", <<2, 1>>>>,
     <<"constructor", <<2, 1>>>>,
     <<"bogo-sort", <<2, 1>>>>,
     <<"bubble-sort", <<>>>>,
     <<"bubble-sort", <<1, NaN>>>>,
     <<"bubble-sort", TooLong>>}

CallNext == RunWith(CallInputs, {"continuous"}, RunLimit) \/ Others \/ ExecuteReset

\* the behaviours with calls of executeRun that fail, and with reset
CallSpec == Init /\ [][CallNext]_vars

\* the calls of executeRun that follow one another on one engine
FreshInputs == {<<"bubble-sort", <<1, 2>>>>}

FreshNext == RunWith(FreshInputs, {"continuous"}, RunLimit) \/ Others \/ ExecuteReset

\* the behaviours in which a run follows a run that completed, was stopped,
\* was left paused, or was reset
FreshSpec == Init /\ [][FreshNext]_vars

\* the engine's own pause and resume next to the executor's calls, which
\* reach stop, step, setSpeed and reset as they are
EngineNext ==
    \/ RunWith(FreshInputs, {"step", "continuous"}, MaxRuns)
    \/ Others
    \/ Pause
    \/ Resume
    \/ ExecuteReset
    \/ \E n \in {3} : SetSpeed(n)

\* the behaviours of a caller of AlgorithmEngine's public operations
EngineSpec == Init /\ [][EngineNext]_vars

\* a run that changes its array, and the calls that end or replace it
\* continuous runs that the caller pauses and resumes, and never stops
LiveInputs ==
    {<<"bubble-sort", <<2, 1>>>>, <<"bubble-sort", <<1, 2, 3>>>>, <<"counting-sort", <<1, 0>>>>}

LiveNext ==
    \/ RunWith(LiveInputs, {"continuous"}, MaxRuns)
    \/ ExecutePause
    \/ ExecuteResume
    \/ \E r \in 1..RunLimit : TimerFires(r)

\* a pending setTimeout fires: the event loop runs every timer that is due
LiveSpec == Init /\ [][LiveNext]_vars /\ \A r \in 1..RunLimit : WF_vars(TimerFires(r))

IsoNext ==
    \/ RunWith({<<"bubble-sort", <<2, 1>>>>}, {"continuous"}, RunLimit)
    \/ ExecuteStop
    \/ ExecuteReset
    \/ \E r \in 1..RunLimit : TimerFires(r)

\* the behaviours in which a run is stopped, reset or superseded
IsoSpec == Init /\ [][IsoNext]_vars

\* the speeds given to executeRun: every key of the table, and integers
\* below and above
Speeds == {0, 1, 2, 3, 4, 5, 6, 7, 8, 9, 10, 11}

\* the speeds given to setSpeed: below and above the table's keys
SetSpeeds == {0 - 1, 12}

\* a call of executeRun with any of the speeds
SpeedRun ==
    \E spd \in Speeds, oldFirst \in BOOLEAN :
        ExecuteRun("bubble-sort", <<2, 1>>, spd, "continuous", oldFirst, MaxRuns)

SpeedNext ==
    \/ SpeedRun
    \/ \E n \in SetSpeeds : SetSpeed(n)
    \/ ExecutePause
    \/ ExecuteResume
    \/ \E r \in 1..RunLimit : TimerFires(r)

\* the behaviours with calls of setSpeed and speeds in and out of 1..10
SpeedSpec == Init /\ [][SpeedNext]_vars

\* the consumer is absent, in order, or raises at every call
SinkInit ==
    /\ state = createInitialState
    /\ heap = [id \in HeapIds |-> <<>>]
    /\ metrics = createInitialMetrics
    /\ speed = 5
    /\ animationMode = "continuous"
    /\ stepResolve = 0
    /\ visualization \in {"null", "ok", "throws"}
    /\ runs = [r \in 1..RunLimit |-> IdleRun]
    /\ results = [r \in 1..RunLimit |-> NoResult]
    /\ nextRun = 1
    /\ runError = ""
    /\ supplied = 5
    /\ actors = {}
    /\ sortAlgo = ""
    /\ sortInput = <<>>
    /\ sortResult = <<>>

\* the behaviours of Spec with any of the three consumers
SinkSpec == SinkInit /\ [][Next]_vars

-----------------------------------------------------------------------------
(* The whole-run view: one algorithm, one input, one uninterrupted run *)

\* the values of the input arrays
SortValues == {v * ValStep : v \in 0..MaxVal}

\* the scenario of the bubble-sort example
ScenarioInput == <<5, 2, 8, 1, 9>>

\* the input arrays
SortInputs ==
    UNION {[1..n -> SortValues] : n \in 1..MaxLen} \cup {ScenarioInput}

SortInit ==
    /\ state = createInitialState
    /\ heap = [id \in HeapIds |-> <<>>]
    /\ metrics = createInitialMetrics
    /\ speed = 5
    /\ animationMode = "continuous"
    /\ stepResolve = 0
    /\ visualization = "ok"
    /\ runs = [r \in 1..RunLimit |-> IdleRun]
    /\ results = [r \in 1..RunLimit |-> NoResult]
    /\ nextRun = 1
    /\ runError = ""
    /\ supplied = 5
    /\ actors = {}
    /\ sortAlgo \in sortingAlgorithms
    /\ sortInput \in SortInputs
    /\ sortResult = <<>>

\* the run is driven to its end
SortRun ==
    /\ sortResult = <<>>
    /\ sortResult' = <<executeToCompletion(sortAlgo, sortInput)>>
    /\ UNCHANGED <<sortAlgo, sortInput, engineVars>>

SortNext == SortRun

SortSpec == SortInit /\ [][SortNext]_vars

-----------------------------------------------------------------------------
(* Properties *)

\* the array is in ascending order
IsSorted(a) == \A p \in 1..(Len(a) - 1) : a[p] <= a[p + 1]

\* how often value v occurs in array a
Occurrences(a, v) == Cardinality({p \in 1..Len(a) : a[p] = v})

\* the arrays hold every value equally often
IsPermutation(a, b) ==
    /\ Len(a) = Len(b)
    /\ \A p \in 1..Len(a) : Occurrences(a, a[p]) = Occurrences(b, a[p])

\* the runs execute has been called for
Started == 1..(nextRun - 1)

\* the run of the last call of execute
Current == nextRun - 1

\* C1: for each of the nine algorithms and every non-empty input, the run
\* driven to natural completion returns a finalArray in ascending order.
C1_FinalArraySorted ==
    sortResult # <<>> => IsSorted(sortResult[1].finalArray)

\* C2: for each of the nine algorithms and every non-empty input, the
\* finalArray of the run driven to natural completion is a permutation of the
\* input.
C2_FinalArrayPermutation ==
    sortResult # <<>> => IsPermutation(sortResult[1].finalArray, sortInput)

\* C3: bubble-sort on [5,2,8,1,9], run to its end, returns finalArray
\* [1,2,5,8,9], totalComparisons = 10, totalSwaps <= 10 and success = true.
C3_BubbleScenario ==
    (sortAlgo = "bubble-sort" /\ sortInput = ScenarioInput /\ sortResult # <<>>)
        => /\ sortResult[1].finalArray = <<1, 2, 5, 8, 9>>
           /\ sortResult[1].totalComparisons = 10
           /\ sortResult[1].totalSwaps <= 10
           /\ sortResult[1].success

\* C4: once executeRun has been called again, the sequence of the previous
\* run has no further primitive effect: every primitive effect of a step is
\* the current run's.
C4_SupersededRunHasNoEffect ==
    \A r \in actors : r = Current

\* C5: a run that stop() was called on resolves without a further external
\* call: as long as its promise is pending, a timer of the run is pending.
C5_StoppedRunGoesOn ==
    \A r \in Started :
        (runs[r].stopCalled /\ state.isStopped /\ runs[r].ph # "done")
            => TimerPending(r)

\* C6: after stop() no element of the working array and no counter changes.
C6_NoMutationAfterStop ==
    [][(state.isStopped /\ state'.isStopped /\ state'.array = state.array)
         => /\ heap'[state.array] = heap[state.array]
            /\ state'.comparisons = state.comparisons
            /\ state'.swaps = state.swaps
            /\ state'.accesses = state.accesses]_vars

\* C7: the Result of a run has success = false if and only if stop() was
\* called after the run started and before its sequence completed naturally.
C7_SuccessIffNotStopped ==
    \A r \in Started :
        results[r].settled = "resolved"
            => (results[r].success = FALSE <=> runs[r].stopCalled)

\* C8: a run ended by stop() resolves, never rejects, with success = false
\* and no error field.
C8_CancellationIsNotAnError ==
    \A r \in Started :
        (runs[r].cancelled /\ results[r].settled # "pending")
            => /\ results[r].settled = "resolved"
               /\ results[r].success = FALSE
               /\ results[r].error = ""

\* C8, its case: a run cut short by stop() has settled
C8_Witness ==
    \E r \in Started :
        runs[r].cancelled /\ runs[r].stopCalled /\ results[r].settled = "resolved"

\* C9: a run whose sequence raised an unexpected exception resolves with a
\* failed Result, success = false.
C9_FaultGivesFailedResult ==
    \A r \in Started :
        (runs[r].faulted /\ results[r].settled # "pending")
            => /\ results[r].settled = "resolved"
               /\ results[r].success = FALSE

\* the run has completed naturally and its Result has been returned
CompletedRun ==
    /\ nextRun > 1
    /\ \A r \in Started : runs[r].ph = "done"
    /\ runs[Current].completed
    /\ results[Current].success

\* C10: stop() after a run has completed changes neither the engine state nor
\* the Result already returned.
C10_StopAfterCompletionIsNoOp ==
    [][(CompletedRun /\ ExecuteStop) => (state' = state /\ results' = results)]_vars

\* C11: pause() and resume() while no run is in progress (idle, completed or
\* stopped) leave the engine state, the paused flag included, unchanged.
C11_PauseResumeNeedARun ==
    [][(InFlight(runs) = {} /\ (ExecutePause \/ ExecuteResume)) => state' = state]_vars

\* the runs whose compare waits for a step signal
WaitingForStep == {r \in Started : runs[r].ph = "step"}

\* C12: step() releases exactly one pending suspension when a compare waits
\* for a step signal, and changes nothing when no suspension is pending:
\* whenever compares wait, the one step() releases is one of them, and a
\* step() that finds none leaves every variable as it is.
C12_StepReleasesWaitingCompare ==
    /\ WaitingForStep # {} => stepResolve \in WaitingForStep
    /\ stepResolve # 0 => stepResolve \in WaitingForStep

\* C13: in step mode the number of step() calls that released a suspension of
\* a run that completed naturally equals the run's totalComparisons.
C13_StepsEqualComparisons ==
    \A r \in Started :
        (runs[r].mode = "step" /\ runs[r].completed /\ ~runs[r].stopCalled
            /\ results[r].settled = "resolved")
            => runs[r].steps = results[r].totalComparisons

\* the engine fields a call of executeRun that fails must leave alone
RunLeavesEngine ==
    UNCHANGED <<state, heap, metrics, speed, animationMode, stepResolve,
                visualization, runs, results, nextRun>>

\* C14: for every name that is not one of the nine algorithm names, executeRun
\* fails with the unknown-algorithm outcome, starts no sequence and leaves the
\* engine state, a run in flight included, unchanged.
C14_UnknownNameRejected ==
    [][\A in \in CallInputs, spd \in RunSpeeds, oldFirst \in BOOLEAN :
          (/\ in[1] \notin sortingAlgorithms
           /\ ExecuteRun(in[1], in[2], spd, "continuous", oldFirst, RunLimit))
              => (runError' = "UnknownAlgorithm" /\ RunLeavesEngine)]_vars

\* C15: executeRun with an array that is empty, too long or holds NaN fails
\* with the invalid-array error before any run starts and leaves the engine
\* state unchanged: a run in flight is not stopped.
C15_InvalidArrayRejected ==
    [][\A in \in CallInputs, spd \in RunSpeeds, oldFirst \in BOOLEAN :
          (/\ in[1] \in sortingAlgorithms
           /\ ~validateArray(in[2])
           /\ ExecuteRun(in[1], in[2], spd, "continuous", oldFirst, RunLimit))
              => (runError' = "InvalidArray" /\ RunLeavesEngine)]_vars

\* C16: a consumer that raises at every call, or is absent, never aborts a
\* run: a run that is the only one and is not stopped resolves with the
\* finalArray, counters and success of the same run with a consumer in order,
\* which are those of executeToCompletion.
C16_SinkFaultsDoNotAbort ==
    \A r \in Started :
        (nextRun = 2 /\ ~state.isStopped /\ results[r].settled # "pending")
            => LET w == executeToCompletion(runs[r].algo, runs[r].input)
               IN /\ results[r].settled = "resolved"
                  /\ results[r].finalArray = w.finalArray
                  /\ results[r].totalComparisons = w.totalComparisons
                  /\ results[r].totalSwaps = w.totalSwaps
                  /\ results[r].totalAccesses = w.totalAccesses
                  /\ results[r].success = w.success

\* C16, its case: with a consumer that raises, a run with a swap has resolved
C16_Witness ==
    /\ visualization = "throws"
    /\ nextRun = 2
    /\ ~state.isStopped
    /\ results[1].settled = "resolved"
    /\ results[1].totalSwaps > 0

\* C17: every run starts from a fresh engine state, whatever happened before:
\* at its start comparisons, swaps, accesses and currentStep are 0, stopped and
\* paused are false, running is true, and the array is the new input.
C17_RunStartsFresh ==
    \A r \in Started :
        LET st == runs[r].start[1]
        IN /\ st.comparisons = 0
           /\ st.swaps = 0
           /\ st.accesses = 0
           /\ st.currentStep = 0
           /\ ~st.isStopped
           /\ ~st.isPaused
           /\ st.isRunning
           /\ runs[r].start[2] = runs[r].input

\* C17, its case: a second run has started after a first one that compared
\* and was stopped
C17_Witness ==
    /\ 2 \in Started
    /\ runs[1].stopCalled
    /\ runs[2].start[2] = runs[2].input
    /\ results[1].totalComparisons > 0

\* C18: primitive calls change the engine state's counters as tabulated:
\* compare adds 1 to comparisons and 2 to accesses, swap 1 to swaps and 4 to
\* accesses, set 2 to accesses, highlight and markSorted nothing. So in the
\* state of a sole run accesses is twice the comparisons, four times the
\* swaps and twice the calls of set.
C18_CountersAsTabulated ==
    nextRun = 2 =>
        state.accesses = 2 * state.comparisons + 4 * state.swaps + 2 * runs[1].sets

\* the delay for each speed from 1 to 10
C19_Table == <<1000, 800, 600, 400, 250, 150, 100, 50, 25, 10>>

\* n clamped to 1..10
C19_Clamp(n) == IF n < 1 THEN 1 ELSE IF n > 10 THEN 10 ELSE n

\* C19: for every integer speed n given to executeRun or setSpeed, below 1
\* and above 10 included, the base delay of a primitive that begins its sleep
\* is the table's entry for n clamped to 1..10.
C19_BaseDelayOfClampedSpeed ==
    [][\A r \in 1..RunLimit :
         runs'[r].sleeps > runs[r].sleeps
             => runs'[r].base = C19_Table[C19_Clamp(supplied')]]_vars

\* C19, its case: a run was given a speed below 1, which execute stored as it
\* is, and its second primitive sleeps with the delay of speed 1
C19_Witness ==
    /\ supplied < 1
    /\ speed = supplied
    /\ runs[1].ph = "delay"
    /\ runs[1].sleeps > 1
    /\ runs[1].base = 1000

\* C20: a call of setSpeed while a primitive is in progress, polling for
\* pause or delaying, does not change the delay of that call: the base delay
\* of a sleeping primitive is that of the speed at its call.
C20_SetSpeedNotRetroactive ==
    \A r \in 1..RunLimit :
        (runs[r].ph = "delay" /\ ~runs[r].stopCalled)
            => runs[r].base = getDelayForSpeed(runs[r].entry)

\* C21: results are deterministic for a fixed algorithm and input: a run that
\* completes without stop returns the finalArray, totalComparisons and
\* totalSwaps of the uninterrupted run of the same algorithm on the same
\* input, whatever calls are interleaved with it.
C21_ResultsDeterministic ==
    (nextRun > 1 /\ results[Current].settled = "resolved" /\ runs[Current].completed
        /\ ~state.isStopped)
        => LET w == executeToCompletion(runs[Current].algo, runs[Current].input)
           IN /\ results[Current].finalArray = w.finalArray
              /\ results[Current].totalComparisons = w.totalComparisons
              /\ results[Current].totalSwaps = w.totalSwaps

\* C22: the run-state flags are mutually constrained: stopped implies not
\* running and not paused; and stopped is terminal: once set it stays set,
\* with running and paused false, until the next run or reset, whatever pause,
\* resume, step, stop and setSpeed calls are made.
C22_StoppedIsTerminal ==
    [][/\ state'.isStopped => (~state'.isRunning /\ ~state'.isPaused)
       /\ (state.isStopped /\ nextRun' = nextRun /\ ~ExecuteReset) => state'.isStopped]_vars

\* C23: the engine's working array is isolated from the caller's arrays: a
\* run never modifies the inputArray its caller supplied, and the finalArray
\* of a returned Result is a snapshot that no later operation changes.
C23_ArraysIsolated ==
    [][\A r \in 1..RunLimit :
         /\ r < nextRun' => heap'[CallerArray(r)] = runs'[r].input
         /\ results[r].settled = "resolved"
                => results'[r].finalArray = results[r].finalArray]_vars

\* C23, its case: the first run's Result was returned with the array as the
\* run left it, and a second run has changed its own array since
C23_Witness ==
    /\ nextRun = 3
    /\ results[1].settled = "resolved"
    /\ runs[2].ph = "delay"
    /\ runs[2].prim = "swap"
    /\ heap[2] # heap[CallerArray(2)]
    /\ heap[CallerArray(1)] = <<2, 1>>

\* C24: each swap step exchanges two elements exactly once: when the sequence
\* of a sole run has gone on from its call of swap(i, j) past the swap
\* descriptor it yields, the working array holds at i the value that was at
\* j, at j the value that was at i, and everything else as before the call.
C24_SwapStepExchangesOnce ==
    [][\A r \in 1..RunLimit :
         (nextRun = 2 /\ nextRun' = 2 /\ runs[r].ph = "delay" /\ runs[r].prim = "swap"
             /\ runs'[r].sleeps # runs[r].sleeps)
             => heap'[runs[r].arr] = SwapInPlace(runs[r].pre, runs[r].a1, runs[r].a2)]_vars

\* C25: sequences never touch the working array outside a primitive: in a
\* step of a sole run in which no swap and no set took effect (swaps and
\* accesses of the engine state are unchanged) the working array is unchanged.
C25_ArrayChangesOnlyInPrimitives ==
    [][(nextRun = 2 /\ nextRun' = 2 /\ state'.swaps = state.swaps
           /\ state'.accesses = state.accesses)
         => heap'[state.array] = heap[state.array]]_vars

\* C26: pause is enforced at every primitive: while a sole run stays paused
\* and is not stopped, a step in which its sequence goes on (the primitive in
\* flight returns) changes no element of the working array and no counter and
\* has no primitive effect, highlight and markSorted included.
C26_PauseEnforcedAtEveryPrimitive ==
    [][(nextRun = 2 /\ nextRun' = 2 /\ state.isPaused /\ state'.isPaused
           /\ ~state.isStopped /\ ~state'.isStopped)
         => /\ heap'[state.array] = heap[state.array]
            /\ state'.comparisons = state.comparisons
            /\ state'.swaps = state.swaps
            /\ state'.accesses = state.accesses
            /\ actors' = {}]_vars

\* C27: reset() while a run is in flight cancels that run: the run resolves
\* with success = false and its sequence has no further primitive effect
\* after the reset; and after reset the engine state is the initial idle
\* state and stays so until the next run.
C27_ResetCancelsTheRun ==
    [][/\ \A r \in 1..RunLimit :
            (/\ results[r].settled = "pending"
             /\ results'[r].settled = "resolved"
             /\ \/ runs[r].resetCalled
                \/ ExecuteReset /\ r \in InFlight(runs) /\ runs[r].ph # "sweep")
                => ~results'[r].success
       /\ \A r \in actors' : ~runs'[r].resetCalled
       /\ ExecuteReset => state' = createInitialState
       /\ (state = createInitialState /\ \E r \in 1..RunLimit : TimerFires(r))
            => state' = createInitialState]_vars

\* C28: the Result of a run superseded by a new call of run has success =
\* false, and its finalArray and counts are those of the superseded run's own
\* array and operations; and the completion of the superseded run does not
\* clear the running flag of the new run.
C28_SupersededResultIsItsOwn ==
    [][\A r \in 1..RunLimit :
         (/\ results[r].settled = "pending"
          /\ results'[r].settled = "resolved"
          /\ runs'[r].stopCalled
          /\ r < nextRun' - 1)
             => /\ ~results'[r].success
                /\ results'[r].finalArray = runs'[r].ownArray
                /\ results'[r].totalComparisons = runs[r].ownComparisons
                /\ results'[r].totalSwaps = runs[r].ownSwaps
                /\ (runs'[nextRun' - 1].ph # "done" /\ ~state'.isStopped)
                      => state'.isRunning]_vars

\* C29: a paused run does not finish while it stays paused: in every state
\* where the engine is paused a run is still running and its Result has not
\* been produced.
C29_PausedRunDoesNotFinish ==
    (nextRun > 1 /\ state.isPaused)
        => (state.isRunning /\ results[Current].settled = "pending")

\* every started run eventually has its Result
EveryRunResolves == \A r \in 1..RunLimit : (r < nextRun) ~> (results[r].settled = "resolved")

C32_OnlyCompareWaitsForStep ==
    \A r \in 1..RunLimit :
        runs[r].ph = "step" => (runs[r].prim = "compare" /\ runs[r].mode = "step")

\* C33: every primitive suspends after its effect for the speed-derived
\* delay before it returns: compare, swap, set and highlight for delay(speed),
\* markSorted for a quarter of it. Durations are in quarters of a millisecond.
C33_PrimitivesSleepTheDelay ==
    \A r \in 1..RunLimit :
        /\ runs[r].ph = "delay"
              => runs[r].slept = (IF runs[r].prim = "markSorted" THEN 1 ELSE 4) * runs[r].base
        /\ ~runs[r].unslept

\* the postcondition of a partition of a[low..high] around index p
PartitionPost(a, low, p, high, pivot) ==
    /\ JSGet(a, p) = pivot
    /\ \A k \in low..(p - 1) : JSGet(a, k) < pivot
    /\ \A k \in (p + 1)..high : JSGet(a, k) >= pivot

RECURSIVE PartitionsHold(_, _, _)
\* the postcondition holds after every partition quickSortHelper(low, high)
\* makes, at the point where the pivot index is marked sorted
PartitionsHold(e, low, high) ==
    IF low >= high
    THEN TRUE
    ELSE LET pivot == JSGet(e.arr, high)
             p == quickPartition(e, pivot, high, low - 1, low)
             pivotIdx == p.i + 1
             e1 == IF pivotIdx # high THEN swapStep(p.e, pivotIdx, high) ELSE p.e
         IN /\ PartitionPost(e1.arr, low, pivotIdx, high, pivot)
            /\ PartitionsHold(e1, low, pivotIdx - 1)
            /\ PartitionsHold(quickSortHelper(e1, low, pivotIdx - 1), pivotIdx + 1, high)

\* C34: after a quick-sort partition of a range [low, high], when its pivot
\* index p is marked sorted, the element at p is the pivot value, every
\* element of [low, p-1] is smaller and every element of [p+1, high] is
\* greater than or equal to it.
C34_PartitionPostcondition ==
    (sortResult # <<>> /\ sortAlgo = "quick-sort")
        => PartitionsHold(Env(createInitialState, createInitialMetrics, sortInput),
                          0, Len(sortInput) - 1)

RECURSIVE QuietPassEnds(_, _, _, _)
\* from pass i on: the first pass in which the swap counter stays as it was
\* leaves the comparison counter at the value total the run ends with
QuietPassEnds(e, n, i, total) ==
    IF i < n - 1
    THEN LET r == bubbleInner(e, n, i, 0, FALSE)
         IN IF r.e.st.swaps = e.st.swaps
            THEN r.e.st.comparisons = total
            ELSE QuietPassEnds(r.e, n, i + 1, total)
    ELSE TRUE

\* C35: bubble sort ends the whole sort after the first pass with zero swaps:
\* on an ascending input of length n >= 2 it makes exactly n - 1 comparisons
\* and 0 swaps, and in general no comparison follows a pass with zero swaps.
C35_BubbleEarlyTermination ==
    (sortResult # <<>> /\ sortAlgo = "bubble-sort")
        => /\ (IsSorted(sortInput) /\ Len(sortInput) >= 2)
                 => /\ sortResult[1].totalComparisons = Len(sortInput) - 1
                    /\ sortResult[1].totalSwaps = 0
           /\ QuietPassEnds(Env(createInitialState, createInitialMetrics, sortInput),
                            Len(sortInput), 0, sortResult[1].totalComparisons)

C35_Witness ==
    /\ sortResult # <<>>
    /\ sortAlgo = "bubble-sort"
    /\ Len(sortInput) = 3
    /\ sortInput[1] < sortInput[2]
    /\ sortInput[2] < sortInput[3]
    /\ sortResult[1].totalComparisons = 2
    /\ sortResult[1].totalSwaps = 0

\* C36: runs of merge-sort, counting-sort and radix-sort never call swap: the
\* swap counter of the engine state is 0 at every point of such a run, and
\* totalSwaps is 0 in its Result, for every input.
C36_SetBasedSortsNeverSwap ==
    (nextRun > 1 /\ runs[Current].algo \in {"merge-sort", "counting-sort", "radix-sort"})
        => /\ state.algorithmName = runs[Current].algo => state.swaps = 0
           /\ results[Current].settled = "resolved" => results[Current].totalSwaps = 0

\* C36 for runs that nothing precedes: the Result of an uninterrupted run of
\* merge-sort, counting-sort or radix-sort has totalSwaps 0
C36_SoleRunNeverSwaps ==
    (sortResult # <<>> /\ sortAlgo \in {"merge-sort", "counting-sort", "radix-sort"})
        => sortResult[1].totalSwaps = 0

\* C37: at every point of a run the engine state's comparisons, swaps and
\* accesses equal the Performance Monitor's comparisons, swaps and memory
\* accesses, so the Result's totalAccesses equals the accesses of getState()
\* when the run ends.
C37_StateCountersEqualMonitor ==
    nextRun = 2
        => /\ state.comparisons = metrics.comparisons
           /\ state.swaps = metrics.swaps
           /\ state.accesses = metrics.memoryAccesses
           /\ results[1].settled = "resolved" => results[1].totalAccesses = state.accesses

\* C38: the progress reported by getState() lies in 0..100 and is 100 once
\* the run has completed naturally.
C38_ProgressComplete ==
    /\ state.progress \in 0..100
    /\ (nextRun = 2 /\ results[1].settled = "resolved" /\ results[1].success
           /\ runs[1].completed /\ ~runs[1].stopCalled)
          => state.progress = 100

\* C39: the engine's stored speed, as getSpeed() returns it, is an integer in
\* 1..10 in every reachable state, after any calls of setSpeed and executeRun
\* with arbitrary integer speeds.
C39_StoredSpeedInRange == speed \in 1..10

\* index i is one of the elements of array a
InBounds(a, i) == i \in 0..(Len(a) - 1)

\* C31: no out-of-bounds access: for every algorithm and non-empty input of
\* length n, every index passed to a primitive or used to read or write the
\* working array lies in 0..n-1 and the array's length stays n, in runs that
\* complete and in runs stopped at any point. Here: the working array of the
\* engine has the length of the current run's input, and a compare that
\* returns after its sleep reads this.state.array at two of its indices.
C31_NoOutOfBoundsAccess ==
    [][/\ nextRun > 1 => Len(heap[state.array]) = Len(runs[Current].input)
       /\ \A r \in 1..RunLimit :
            (TimerFires(r) /\ runs[r].ph = "delay" /\ runs[r].prim = "compare"
                /\ runs[r].mode = "continuous")
                => /\ InBounds(heap[state.array], runs[r].a1)
                   /\ InBounds(heap[state.array], runs[r].a2)]_vars

\* C31 for runs that nothing precedes: the array an uninterrupted run ends
\* with has the length of the input and no element read or written past an end
C31_SoleRunKeepsLength ==
    (sortResult # <<>> /\ sortResult[1].success)
        => /\ Len(sortResult[1].finalArray) = Len(sortInput)
           /\ \A p \in 1..Len(sortInput) : sortResult[1].finalArray[p] # Undefined

====
